---- MODULE Spec2Model ----
(***************************************************************************)
(* A model of inject_dji_metadata.py: the directory scan and file matcher  *)
(* of main(), the thread pool running process_single_video over the work   *)
(* list, the processed-state detector, the subtitle embedder, the metadata *)
(* writer, the source recycler, and the tally and summary of main().       *)
(*                                                                         *)
(* Text is modelled as sequences of one-character strings, so that the     *)
(* path and string functions of the code (lower, endswith, splitext,       *)
(* basename, dirname, join, normpath, substring search) are computed the   *)
(* way Python computes them on POSIX paths.                                *)
(***************************************************************************)
EXTENDS Integers, Sequences, FiniteSets, TLC

(***************************************************************************)
(* Text helpers (Python str methods)                                       *)
(***************************************************************************)
UpperLetters == <<"A","B","C","D","E","F","G","H","I","J","K","L","M",
                  "N","O","P","Q","R","S","T","U","V","W","X","Y","Z">>
LowerLetters == <<"a","b","c","d","e","f","g","h","i","j","k","l","m",
                  "n","o","p","q","r","s","t","u","v","w","x","y","z">>

\* str.lower() on one character
LowerChar(c) ==
    IF \E k \in 1..Len(UpperLetters) : UpperLetters[k] = c
    THEN LowerLetters[CHOOSE k \in 1..Len(UpperLetters) : UpperLetters[k] = c]
    ELSE c

\* str.lower()
Lower(s) == [k \in 1..Len(s) |-> LowerChar(s[k])]

\* str.endswith(suf)
EndsWith(s, suf) ==
    /\ Len(suf) <= Len(s)
    /\ SubSeq(s, Len(s) - Len(suf) + 1, Len(s)) = suf

\* str.startswith(pre)
StartsWith(s, pre) ==
    /\ Len(pre) <= Len(s)
    /\ SubSeq(s, 1, Len(pre)) = pre

\* `sub in s` on strings
Contains(sub, s) ==
    \E k \in 0..(Len(s) - Len(sub)) : SubSeq(s, k + 1, k + Len(sub)) = sub

\* s.rfind(c) + 1: the 1-based place of the last c in s, 0 when there is none
RECURSIVE RFindFrom(_, _, _)
RFindFrom(s, c, k) ==
    IF k = 0 THEN 0 ELSE IF s[k] = c THEN k ELSE RFindFrom(s, c, k - 1)

RFind(s, c) == RFindFrom(s, c, Len(s))

\* s.rstrip('/')
RECURSIVE RStripSlash(_)
RStripSlash(s) ==
    IF s # <<>> /\ s[Len(s)] = "/" THEN RStripSlash(SubSeq(s, 1, Len(s) - 1)) ELSE s

(***************************************************************************)
(* os.path (posixpath)                                                     *)
(***************************************************************************)
\* os.path.basename
Basename(p) == SubSeq(p, RFind(p, "/") + 1, Len(p))

\* os.path.dirname
Dirname(p) ==
    LET head == SubSeq(p, 1, RFind(p, "/"))
    IN  IF head # <<>> /\ RStripSlash(head) # <<>> THEN RStripSlash(head) ELSE head

\* os.path.join(a, b)
Join(a, b) ==
    IF StartsWith(b, <<"/">>) THEN b
    ELSE IF a = <<>> \/ a[Len(a)] = "/" THEN a \o b
    ELSE a \o <<"/">> \o b

\* The place of the dot that starts the extension, 0 when there is no extension
\* (genericpath._splitext: a leading run of dots belongs to the name).
ExtDot(p) ==
    LET sep == RFind(p, "/")
        dot == RFind(p, ".")
    IN  IF dot > sep /\ (\E k \in (sep + 1)..(dot - 1) : p[k] # ".") THEN dot ELSE 0

\* os.path.splitext(p)[0]
SplitextRoot(p) == IF ExtDot(p) = 0 THEN p ELSE SubSeq(p, 1, ExtDot(p) - 1)

\* os.path.splitext(p)[1]
SplitextExt(p) == IF ExtDot(p) = 0 THEN <<>> ELSE SubSeq(p, ExtDot(p), Len(p))

\* p.split('/')
RECURSIVE SplitFrom(_, _, _)
SplitFrom(p, k, cur) ==
    IF k > Len(p) THEN <<cur>>
    ELSE IF p[k] = "/" THEN <<cur>> \o SplitFrom(p, k + 1, <<>>)
    ELSE SplitFrom(p, k + 1, Append(cur, p[k]))

SplitSlash(p) == SplitFrom(p, 1, <<>>)

\* '/'.join(comps)
RECURSIVE JoinSlash(_)
JoinSlash(comps) ==
    IF comps = <<>> THEN <<>>
    ELSE IF Len(comps) = 1 THEN comps[1]
    ELSE comps[1] \o <<"/">> \o JoinSlash(Tail(comps))

\* The loop of posixpath.normpath over the components: '' and '.' are dropped,
\* '..' pops the last kept component unless there is none to pop.
RECURSIVE NormComps(_, _, _)
NormComps(comps, kept, rooted) ==
    IF comps = <<>> THEN kept
    ELSE LET c == Head(comps)
         IN  IF c = <<>> \/ c = <<".">> THEN NormComps(Tail(comps), kept, rooted)
             ELSE IF \/ c # <<".", ".">>
                     \/ (~rooted /\ kept = <<>>)
                     \/ (kept # <<>> /\ kept[Len(kept)] = <<".", ".">>)
                  THEN NormComps(Tail(comps), Append(kept, c), rooted)
             ELSE IF kept # <<>>
                  THEN NormComps(Tail(comps), SubSeq(kept, 1, Len(kept) - 1), rooted)
             ELSE NormComps(Tail(comps), kept, rooted)

\* os.path.normpath
NormPath(p) ==
    IF p = <<>> THEN <<".">>
    ELSE LET rooted == StartsWith(p, <<"/">>)
             \* POSIX keeps exactly two leading slashes, and one for any other number
             lead   == IF ~rooted THEN <<>>
                       ELSE IF StartsWith(p, <<"/", "/">>) /\ ~StartsWith(p, <<"/", "/", "/">>)
                            THEN <<"/", "/">> ELSE <<"/">>
             out    == lead \o JoinSlash(NormComps(SplitSlash(p), <<>>, rooted))
         IN  IF out = <<>> THEN <<".">> ELSE out

(***************************************************************************)
(* Bounds of the model                                                     *)
(***************************************************************************)
\* The largest number of files on the disk when the program starts.
MaxFiles == 4
\* The largest --threads value tried.
MaxThreads == 2
\* The number of consecutive runs of main() over the same disk.
MaxRuns == 2

(***************************************************************************)
(* The disk: files are named by their normalized path.  "s" is the source  *)
(* tree, "e" the export tree; both directories always exist, "x" never.    *)
(***************************************************************************)
DirS == <<"s">>
DirE == <<"e">>
DirX == <<"x">>
Dirs == {DirS, DirE}

SrtA    == <<"s","/","a",".","s","r","t">>
SrtAB   == <<"s","/","a","b",".","S","R","T">>
VidA    == <<"s","/","a",".","M","P","4">>
VidAmov == <<"s","/","a",".","m","o","v">>
ExpA    == <<"e","/","a",".","m","p","4">>
ExpABC  == <<"e","/","a","b","c",".","m","o","v">>
ExpTemp == <<"e","/","t","e","m","p","_","a",".","m","p","4">>
ExpC    == <<"e","/","c",".","m","p","4">>

\* The files a disk may hold, in the order a directory listing returns them.
UniverseSet == {SrtA, SrtAB, VidA, VidAmov, ExpA, ExpABC, ExpTemp, ExpC}

\* The values <<src_dir, export_dir>> takes: "./s" spells "s", and with
\* export_dir = "s" the two trees coincide.
DirArgs == {<<<<".","/","s">>, DirE>>, <<<<".","/","s">>, DirS>>,
            <<DirX, DirE>>, <<<<".","/","s">>, DirX>>}

\* What a telemetry log's text holds: the set of fields its regexes find.
AllFields == {"datetime", "latitude", "longitude", "altitude", "iso", "shutter", "fnum"}
\* The logs of the pipeline runs: a full log, one with no timestamp line, one
\* with no longitude.
TextKinds == {AllFields, AllFields \ {"datetime"}, AllFields \ {"longitude"}}

\* A tagging command that writes another model name
CmdModelOther == <<"D","J","I"," ","M","i","n","i"," ","3">>

\* The values the pipeline writes ('-Model=...', 'title=...') and the values the
\* processed-state detector looks for.
CmdModel == <<"D","J","I"," ","M","i","n","i"," ","3"," ","P","r","o">>
CmdTitle == <<"D","J","I"," ","T","e","l","e","m","e","t","r","y">>
DetectModel == <<"D","J","I"," ","M","i","n","i"," ","3"," ","P","r","o">>
DetectTitle == <<"D","J","I"," ","T","e","l","e","m","e","t","r","y">>

VARIABLES
    cfg,          \* the parsed arguments and has_ffmpeg (main's locals)
    files,        \* the paths that exist on disk
    tagModel,     \* per file: the Model tag the tagging tool reports (<<>> when none)
    tagTitle,     \* per file: the subtitle stream title (<<>> when none)
    text,         \* per telemetry log: the fields its text holds
    trash,        \* the paths moved to the recycle bin
    phase,        \* where main() is
    run,          \* the number of the current run of main()
    source_map,   \* main's source_map: a sequence of <<key, srt path>> in insertion order
    tasks,        \* main's tasks: a sequence of [export_path, matched_srt]
    w,            \* per task: the worker's position, locals and what it has done
    counts,       \* main's tally
    summary,      \* what this run wrote to injection_summary.txt ("none" before)
    taggedBefore, \* exports whose tagging invocation succeeded in an earlier run
    call,         \* a function called on its own, with its arguments (fn "none" in a run of main)
    ret           \* what that function returned (done FALSE before it returns)

vars == <<cfg, files, tagModel, tagTitle, text, trash, phase, run, source_map,
          tasks, w, counts, summary, taggedBefore, call, ret>>

(***************************************************************************)
(* The file system as os.path.exists sees it                               *)
(***************************************************************************)
\* The file a path names: the kernel resolves "." and ".." and repeated
\* separators (no symbolic links on the modelled disk).
FsResolve(p) ==
    JoinSlash(NormComps(SplitSlash(p), <<>>, FALSE))

\* An existence test that answers True for every path
ExistsAlways(p, fs) == TRUE

\* os.path.exists(p) on the disk fs
Exists(p, fs) == LET f == FsResolve(p) IN f \in fs \/ f \in Dirs

\* The files of the disk fs that lie in the directory top names
FilesIn(top, fs) == {f \in fs : Dirname(f) = FsResolve(top)}

\* The orders in which the file system may return the files names of a
\* directory: os.walk lists a directory in whatever order the file system
\* gives, so every order is possible.
RECURSIVE ListingOrders(_)
ListingOrders(names) ==
    IF names = {} THEN {<<>>}
    ELSE UNION {{<<f>> \o rest : rest \in ListingOrders(names \ {f})} : f \in names}

\* The files os.walk(top) yields as os.path.join(root, filename) when the file
\* system lists the directory's files in the order listing.
Walk(top, listing) == [k \in 1..Len(listing) |-> Join(top, Basename(listing[k]))]

(***************************************************************************)
(* FileMatcher: main(), the scan of the two trees                          *)
(***************************************************************************)
ExtSrt == <<".","s","r","t">>
ExtMp4 == <<".","m","p","4">>
ExtMov == <<".","m","o","v">>
MarkExiftoolTmp == <<"_","e","x","i","f","t","o","o","l","_","t","m","p">>
MarkTemp == <<"t","e","m","p","_">>

\* No match: matched_srt = None
NoMatch == <<>>

MapHas(m, key) == \E k \in 1..Len(m) : m[k][1] = key
MapGet(m, key) == m[CHOOSE k \in 1..Len(m) : m[k][1] = key][2]
\* m[key] = val on a dict: a new key goes last, a known key keeps its place
MapPut(m, key, val) ==
    IF MapHas(m, key)
    THEN [k \in 1..Len(m) |-> IF m[k][1] = key THEN <<key, val>> ELSE m[k]]
    ELSE Append(m, <<key, val>>)
MapKeys(m) == [k \in 1..Len(m) |-> m[k][1]]

\* The loop over the source tree: every *.srt file, keyed by its lower-cased base name
RECURSIVE BuildSourceMap(_, _)
BuildSourceMap(paths, m) ==
    IF paths = <<>> THEN m
    ELSE LET path     == Head(paths)
             filename == Basename(path)
         IN  IF EndsWith(Lower(filename), ExtSrt)
             THEN BuildSourceMap(Tail(paths),
                                 MapPut(m, Lower(SplitextRoot(filename)), path))
             ELSE BuildSourceMap(Tail(paths), m)

\* [key for key in source_map.keys() if key in base_name]
RECURSIVE SubstringKeys(_, _)
SubstringKeys(keys, base_name) ==
    IF keys = <<>> THEN <<>>
    ELSE (IF Contains(Head(keys), base_name) THEN <<Head(keys)>> ELSE <<>>)
         \o SubstringKeys(Tail(keys), base_name)

\* One insertion of a stable sort by length, longest first: x goes after every
\* element at least as long as it.
RECURSIVE InsertByLenDesc(_, _)
InsertByLenDesc(sorted, x) ==
    IF sorted = <<>> THEN <<x>>
    ELSE IF Len(Head(sorted)) >= Len(x)
         THEN <<Head(sorted)>> \o InsertByLenDesc(Tail(sorted), x)
         ELSE <<x>> \o sorted

\* sorted(matches, key=len, reverse=True): stable, so equal lengths keep their order
RECURSIVE SortedByLenDesc(_, _)
SortedByLenDesc(matches, acc) ==
    IF matches = <<>> THEN acc
    ELSE SortedByLenDesc(Tail(matches), InsertByLenDesc(acc, Head(matches)))

BestMatchFirstFound(matches) == matches[1]

\* sorted(matches, key=len, reverse=True)[0]
BestMatch(matches) == SortedByLenDesc(matches, <<>>)[1]

\* The key an export base name is matched to: itself when it is a key, else the
\* best of the keys it contains; NoMatch when there is none.
MatchKey(base_name, m) ==
    IF MapHas(m, base_name) THEN base_name
    ELSE LET matches == SubstringKeys(MapKeys(m), base_name)
         IN  IF matches # <<>> THEN BestMatch(matches) ELSE NoMatch

\* A matcher that falls back to the first log of the index
MatchSrtAnyKey(base_name, m) == IF m = <<>> THEN NoMatch ELSE m[1][2]

\* matched_srt for an export base name
MatchSrt(base_name, m) ==
    IF MatchKey(base_name, m) = NoMatch THEN NoMatch ELSE MapGet(m, MatchKey(base_name, m))

\* filename.lower().endswith(('.mp4', '.mov'))
IsVideoName(filename) ==
    EndsWith(Lower(filename), ExtMp4) \/ EndsWith(Lower(filename), ExtMov)

\* A scan that skips no temp file
IsOwnTempNever(export_path) == FALSE

\* "_exiftool_tmp" in export_path or "temp_" in filename
IsOwnTemp(export_path) ==
    Contains(MarkExiftoolTmp, export_path) \/ Contains(MarkTemp, Basename(export_path))

\* The loop over the export tree: videos_to_process
RECURSIVE BuildWorkList(_, _)
BuildWorkList(paths, m) ==
    IF paths = <<>> THEN <<>>
    ELSE LET export_path == Head(paths)
             filename    == Basename(export_path)
             base_name   == Lower(SplitextRoot(filename))
             rest        == BuildWorkList(Tail(paths), m)
         IN  IF IsVideoName(filename) /\ ~IsOwnTemp(export_path)
                /\ MatchSrt(base_name, m) # NoMatch
             THEN <<[export_path |-> export_path, matched_srt |-> MatchSrt(base_name, m)]>>
                  \o rest
             ELSE rest

(***************************************************************************)
(* TelemetryParser                                                         *)
(***************************************************************************)
\* parse_srt_data returning None
ParsedNone == {}

\* A parser that keeps whatever it found when either coordinate is there
ParseSrtEither(fields) ==
    IF "latitude" \in fields \/ "longitude" \in fields THEN fields ELSE ParsedNone

\* parse_srt_data: the keys of the dictionary it returns.  latitude and
\* longitude are stored only together; the other fields each on their own.
ParseSrt(fields) ==
    LET gps  == IF "latitude" \in fields /\ "longitude" \in fields
                THEN {"latitude", "longitude"} ELSE {}
        data == gps \cup (fields \cap {"datetime", "altitude", "iso", "shutter", "fnum"})
    IN  IF "latitude" \in data /\ "longitude" \in data THEN data ELSE ParsedNone

(***************************************************************************)
(* The worker: process_single_video and what it calls                      *)
(***************************************************************************)
NewWorker ==
    [pc |-> "pending",       \* pending, ffcheck, probe, embed, embed_move, inject, recycle, trash, done, cancelled
     srt_ok |-> TRUE,        \* process_single_video's srt_ok
     final |-> <<>>,         \* the status the function will return
     src_vid |-> <<>>,       \* recycle_source's src_vid once a candidate is chosen
     result |-> <<>>,        \* the future's result, <<"exception", e>> when it raised
     detect |-> "none",      \* check_if_processed: none (not called), true, false
     exifQ |-> "none",       \* how the detector's exiftool query ended (ok, fail, raise),
                             \* kept until the worker's next tool invocation
     probeQ |-> "none",      \* how the detector's ffprobe query ended (none when not
                             \* reached, ok, fail, raise), kept as long as exifQ
     remux |-> "none",       \* the ffmpeg invocation: none, ok, fail
     moved |-> "none",       \* shutil.move of the temp output: none, ok, raise
     parsed |-> "none",      \* parse_srt_data: none (not called), None, record
     tag |-> "none",         \* the exiftool write: none, ok, fail, raise
     recycle |-> 0,          \* calls of recycle_source
     safety |-> FALSE,       \* recycle_source returned at its safety check
     trashRes |-> "none"]    \* the recycle-bin invocation: none, ok, gone, error

Running(j) == w[j].pc \notin {"pending", "done", "cancelled"}
IsException(res) == res # <<>> /\ res[1] = "exception"

\* `"DJI Mini 3 Pro" in model`, `"DJI Telemetry" in result.stdout`
ModelHasSentinel(model) == Contains(DetectModel, model)
TitleHasSentinel(title) == Contains(DetectTitle, title)

\* A detector that takes a query it could not make for a hit
CheckIfProcessedFailClosed(exifQ, model, ffmpeg, probeQ, title) ==
    IF exifQ = "raise" THEN TRUE
    ELSE IF exifQ = "ok" /\ ModelHasSentinel(model) THEN TRUE
    ELSE IF ffmpeg /\ probeQ = "ok" /\ TitleHasSentinel(title) THEN TRUE
    ELSE FALSE

\* check_if_processed, given how its two queries ended and what they printed
CheckIfProcessed(exifQ, model, ffmpeg, probeQ, title) ==
    IF exifQ = "raise" THEN FALSE
    ELSE IF exifQ = "ok" /\ ModelHasSentinel(model) THEN TRUE
    ELSE IF ffmpeg /\ probeQ = "ok" /\ TitleHasSentinel(title) THEN TRUE
    ELSE FALSE

\* Whether check_if_processed goes on to call check_ffmpeg after its
\* exiftool query
ReachesCheckFfmpeg(exifQ, model) ==
    /\ exifQ # "raise"
    /\ ~(exifQ = "ok" /\ ModelHasSentinel(model))

\* The tag functions after the disk changed to fs2, file f carrying value v
TagsWith(tg, fs2, f, v) == [x \in fs2 |-> IF x = f THEN v ELSE tg[x]]
TagsOn(tg, fs2) == [x \in fs2 |-> tg[x]]

\* temp_output of embed_subtitle
TempOutput(video_path) ==
    Join(Dirname(video_path), MarkTemp \o Basename(video_path))

RemoveTempForgotten(fs, temp_output) == fs

\* `if os.path.exists(temp_output): os.remove(temp_output)` of both handlers
RemoveTemp(fs, temp_output) == fs \ {temp_output}

\* tmp_path of inject_metadata
ExiftoolTmp(video_path) == video_path \o MarkExiftoolTmp

\* potential_srcs of recycle_source
PotentialSrcs(matched_srt) ==
    LET src_dir  == Dirname(matched_srt)
        src_base == SplitextRoot(Basename(matched_srt))
    IN  << Join(src_dir, src_base \o <<".","M","P","4">>),
           Join(src_dir, src_base \o <<".","m","p","4">>),
           Join(src_dir, src_base \o <<".","M","O","V">>),
           Join(src_dir, src_base \o <<".","m","o","v">>) >>

\* The first candidate that exists, 0 when none does
RECURSIVE FirstExistingFrom(_, _, _)
FirstExistingFrom(cands, fs, k) ==
    IF k > Len(cands) THEN 0
    ELSE IF Exists(cands[k], fs) THEN k
    ELSE FirstExistingFrom(cands, fs, k + 1)

FirstExisting(cands, fs) == FirstExistingFrom(cands, fs, 1)

SamePathRaw(src_vid, export_path) == src_vid = export_path

\* The safety check of recycle_source
SamePath(src_vid, export_path) == NormPath(src_vid) = NormPath(export_path)

\* The worker returns res: the future is done
Return(r, res) == [r EXCEPT !.pc = "done", !.result = res]

\* The statuses process_single_video returns
StatusAlready == <<"already_processed">>
StatusError == <<"error">>
\* f"success|{filename}|{datetime}|{latitude},{longitude}", as its '|' fields
StatusSuccess(filename, metadata) ==
    <<"success", filename,
      IF "datetime" \in metadata THEN "datetime" ELSE "?",
      "latitude,longitude">>

SkipsInverted(force, processed) == force /\ processed

\* `not force and check_if_processed(export_path)`
SkipsAsProcessed(force, processed) == ~force /\ processed

MayRecycleIgnoringMeta(delete_source, meta_ok, srt_ok) == delete_source /\ srt_ok

\* `delete_source and meta_ok and srt_ok`
MayRecycle(delete_source, meta_ok, srt_ok) == delete_source /\ meta_ok /\ srt_ok

\* process_single_video once check_if_processed has answered: the
\* already-processed branch (with the call of recycle_source under
\* cleanup-mode), or on to step 1.
AfterCheck(r, processed) ==
    IF SkipsAsProcessed(cfg.force, processed)
    THEN IF cfg.delete_source
         THEN [r EXCEPT !.pc = "recycle", !.recycle = @ + 1, !.final = StatusAlready]
         ELSE Return(r, StatusAlready)
    ELSE [r EXCEPT !.pc = IF cfg.has_ffmpeg THEN "embed" ELSE "inject"]

\* A thread of the pool takes task i from the queue and runs
\* process_single_video up to the end of check_if_processed's exiftool query.
ProcessStart(i) ==
    /\ phase = "pool"
    /\ w[i].pc = "pending"
    /\ \A j \in 1..(i - 1) : w[j].pc # "pending"
    /\ Cardinality({j \in 1..Len(w) : Running(j)}) < cfg.threads
    /\ LET x  == FsResolve(tasks[i].export_path)
           on == x \in files
       IN  \/ /\ cfg.force
              /\ w' = [w EXCEPT ![i].pc = IF cfg.has_ffmpeg THEN "embed" ELSE "inject"]
           \/ /\ ~cfg.force
              /\ \E exifQ \in {"ok", "fail", "raise"} :
                    LET model == IF exifQ = "ok" THEN tagModel[x] ELSE <<>>
                        processed == CheckIfProcessed(exifQ, model, FALSE, "none", <<>>)
                        r == [w[i] EXCEPT !.detect = IF processed THEN "true" ELSE "false",
                                          !.exifQ = exifQ]
                    IN  /\ (exifQ = "ok" => on)
                        /\ IF ReachesCheckFfmpeg(exifQ, model)
                           THEN w' = [w EXCEPT ![i].pc = "ffcheck", ![i].exifQ = exifQ]
                           ELSE w' = [w EXCEPT ![i] = AfterCheck(r, processed)]
    /\ UNCHANGED <<cfg, files, tagModel, tagTitle, text, trash, phase, run, source_map,
                   tasks, counts, summary, taggedBefore, call, ret>>

\* check_if_processed calls check_ffmpeg() afresh: 'ffmpeg -version' runs
\* again, and its answer need not be the one main got. exiftool's output held
\* no sentinel, or this call would not have been reached.
DetectorCheckFfmpeg(i) ==
    /\ w[i].pc = "ffcheck"
    /\ \E ffmpegNow \in BOOLEAN :
          LET processed == CheckIfProcessed(w[i].exifQ, <<>>, ffmpegNow, "none", <<>>)
              r == [w[i] EXCEPT !.detect = IF processed THEN "true" ELSE "false"]
          IN  IF ffmpegNow
              THEN w' = [w EXCEPT ![i].pc = "probe"]
              ELSE w' = [w EXCEPT ![i] = AfterCheck(r, processed)]
    /\ UNCHANGED <<cfg, files, tagModel, tagTitle, text, trash, phase, run, source_map,
                   tasks, counts, summary, taggedBefore, call, ret>>

\* check_if_processed, the ffprobe query and the answer
Probe(i) ==
    /\ w[i].pc = "probe"
    /\ LET x == FsResolve(tasks[i].export_path)
       IN  \E probeQ \in {"ok", "fail", "raise"} :
              LET title == IF probeQ = "ok" THEN tagTitle[x] ELSE <<>>
                  processed == CheckIfProcessed(w[i].exifQ, <<>>, TRUE, probeQ, title)
                  r == [w[i] EXCEPT !.detect = IF processed THEN "true" ELSE "false",
                                    !.probeQ = probeQ]
              IN  /\ (probeQ = "ok" => x \in files)
                  /\ w' = [w EXCEPT ![i] = AfterCheck(r, processed)]
    /\ UNCHANGED <<cfg, files, tagModel, tagTitle, text, trash, phase, run, source_map,
                   tasks, counts, summary, taggedBefore, call, ret>>

\* embed_subtitle, the ffmpeg invocation: it writes the temp output, or fails
\* (CalledProcessError) and the handler removes whatever temp file exists.
EmbedRun(i) ==
    /\ w[i].pc = "embed"
    /\ LET x == FsResolve(tasks[i].export_path)
           t == FsResolve(TempOutput(tasks[i].export_path))
       IN  \/ /\ x \in files
              /\ files' = files \cup {t}
              /\ tagModel' = TagsWith(tagModel, files', t, tagModel[x])
              /\ tagTitle' = TagsWith(tagTitle, files', t, CmdTitle)
              /\ w' = [w EXCEPT ![i].pc = "embed_move", ![i].remux = "ok",
                                ![i].exifQ = "none", ![i].probeQ = "none"]
           \/ /\ files' = RemoveTemp(files, t)
              /\ tagModel' = TagsOn(tagModel, files')
              /\ tagTitle' = TagsOn(tagTitle, files')
              /\ w' = [w EXCEPT ![i].pc = "inject", ![i].remux = "fail",
                                ![i].srt_ok = FALSE, ![i].exifQ = "none",
                                ![i].probeQ = "none"]
    /\ UNCHANGED <<cfg, text, trash, phase, run, source_map, tasks, counts, summary,
                   taggedBefore, call, ret>>

\* embed_subtitle, shutil.move(temp_output, video_path): the export is replaced
\* by the temp output, or the move raises and the handler removes the temp file.
EmbedMove(i) ==
    /\ w[i].pc = "embed_move"
    /\ LET x == FsResolve(tasks[i].export_path)
           t == FsResolve(TempOutput(tasks[i].export_path))
       IN  \/ /\ t \in files
              /\ files' = (files \ {t}) \cup {x}
              /\ tagModel' = [f \in files' |-> IF f = x THEN tagModel[t] ELSE tagModel[f]]
              /\ tagTitle' = [f \in files' |-> IF f = x THEN tagTitle[t] ELSE tagTitle[f]]
              /\ w' = [w EXCEPT ![i].pc = "inject", ![i].moved = "ok", ![i].srt_ok = TRUE]
           \/ /\ files' = RemoveTemp(files, t)
              /\ tagModel' = TagsOn(tagModel, files')
              /\ tagTitle' = TagsOn(tagTitle, files')
              /\ w' = [w EXCEPT ![i].pc = "inject", ![i].moved = "raise",
                                ![i].srt_ok = FALSE]
    /\ UNCHANGED <<cfg, text, trash, phase, run, source_map, tasks, counts, summary,
                   taggedBefore, call, ret>>

\* Step 2 and the gate of step 3 of process_single_video: parse_srt_data, then
\* inject_metadata (the stale exiftool temp file removed, the exiftool write),
\* then either the call of recycle_source or the return.
Inject(i) ==
    /\ w[i].pc = "inject"
    /\ LET x        == FsResolve(tasks[i].export_path)
           tmp      == FsResolve(ExiftoolTmp(tasks[i].export_path))
           metadata == ParseSrt(text[FsResolve(tasks[i].matched_srt)])
           r0       == [w[i] EXCEPT !.exifQ = "none", !.probeQ = "none",
                                    !.parsed = IF metadata = ParsedNone THEN "None"
                                               ELSE "record"]
           \* the end of process_single_video, given meta_ok and final_status
           after(r, meta_ok, status) ==
               IF MayRecycle(cfg.delete_source, meta_ok, w[i].srt_ok)
               THEN [r EXCEPT !.pc = "recycle", !.recycle = @ + 1, !.final = status]
               ELSE Return(r, status)
           success  == StatusSuccess(Basename(tasks[i].export_path), metadata)
       IN  \/ \* no valid record: final_status stays "error", meta_ok False
              /\ metadata = ParsedNone
              /\ w' = [w EXCEPT ![i] = after(r0, FALSE, StatusError)]
              /\ UNCHANGED <<files, tagModel, tagTitle>>
           \/ \* metadata['datetime'] raises KeyError out of the worker
              /\ metadata # ParsedNone
              /\ "datetime" \notin metadata
              /\ w' = [w EXCEPT ![i] = Return(r0, <<"exception", "KeyError">>)]
              /\ UNCHANGED <<files, tagModel, tagTitle>>
           \/ \* exiftool runs and succeeds
              /\ metadata # ParsedNone
              /\ "datetime" \in metadata
              /\ x \in files
              /\ files' = files \ {tmp}
              /\ tagModel' = TagsWith(tagModel, files', x, CmdModel)
              /\ tagTitle' = TagsOn(tagTitle, files')
              /\ w' = [w EXCEPT ![i] = after([r0 EXCEPT !.tag = "ok"], TRUE, success)]
           \/ \* exiftool exits non-zero: CalledProcessError, printed and dropped
              /\ metadata # ParsedNone
              /\ "datetime" \in metadata
              /\ files' = files \ {tmp}
              /\ tagModel' = TagsOn(tagModel, files')
              /\ tagTitle' = TagsOn(tagTitle, files')
              /\ w' = [w EXCEPT ![i] = after([r0 EXCEPT !.tag = "fail"], TRUE, success)]
           \/ \* exiftool cannot be started: FileNotFoundError out of the worker
              /\ metadata # ParsedNone
              /\ "datetime" \in metadata
              /\ files' = files \ {tmp}
              /\ tagModel' = TagsOn(tagModel, files')
              /\ tagTitle' = TagsOn(tagTitle, files')
              /\ w' = [w EXCEPT ![i] = Return([r0 EXCEPT !.tag = "raise"],
                                              <<"exception", "FileNotFoundError">>)]
    /\ UNCHANGED <<cfg, text, trash, phase, run, source_map, tasks, counts, summary,
                   taggedBefore, call, ret>>

\* recycle_source up to the recycle-bin invocation: the first candidate that
\* exists is found, and the safety check compares it with the export path.
RecycleScan(i) ==
    /\ w[i].pc = "recycle"
    /\ LET cands == PotentialSrcs(tasks[i].matched_srt)
           k     == FirstExisting(cands, files)
       IN  IF k = 0
           THEN w' = [w EXCEPT ![i] = Return(w[i], w[i].final)]
           ELSE IF SamePath(cands[k], tasks[i].export_path)
           THEN w' = [w EXCEPT ![i] = Return([w[i] EXCEPT !.safety = TRUE], w[i].final)]
           ELSE w' = [w EXCEPT ![i].pc = "trash", ![i].src_vid = cands[k]]
    /\ UNCHANGED <<cfg, files, tagModel, tagTitle, text, trash, phase, run, source_map,
                   tasks, counts, summary, taggedBefore, call, ret>>

\* recycle_source, the recycle-bin invocation on src_vid: the file is moved to
\* the bin, or the tool fails (the file is gone, or any other error) and the
\* handler prints the error; the function returns either way.
Trash(i) ==
    /\ w[i].pc = "trash"
    /\ LET f == FsResolve(w[i].src_vid)
       IN  \/ /\ f \in files
              /\ files' = files \ {f}
              /\ trash' = trash \cup {f}
              /\ tagModel' = TagsOn(tagModel, files')
              /\ tagTitle' = TagsOn(tagTitle, files')
              /\ w' = [w EXCEPT ![i] = Return([w[i] EXCEPT !.trashRes = "ok"], w[i].final)]
           \/ /\ f \in files
              /\ w' = [w EXCEPT ![i] = Return([w[i] EXCEPT !.trashRes = "error"], w[i].final)]
              /\ UNCHANGED <<files, trash, tagModel, tagTitle>>
           \/ /\ f \notin files
              /\ w' = [w EXCEPT ![i] = Return([w[i] EXCEPT !.trashRes = "gone"], w[i].final)]
              /\ UNCHANGED <<files, trash, tagModel, tagTitle>>
    /\ UNCHANGED <<cfg, text, phase, run, source_map, tasks, counts, summary, taggedBefore, call, ret>>

(***************************************************************************)
(* main()                                                                  *)
(***************************************************************************)
NoCounts == [total |-> 0, processed |-> 0, already |-> 0, skipped |-> 0, log |-> <<>>]

TallyBranchNoAlready(res) == IF res[1] = "success" THEN "success" ELSE "skipped"

\* The branch of the tally loop a result takes
TallyBranch(res) ==
    IF res[1] = "success" THEN "success"
    ELSE IF res = StatusAlready THEN "already"
    ELSE "skipped"

\* The tally loop over results
RECURSIVE TallyLoop(_, _)
TallyLoop(results, c) ==
    IF results = <<>> THEN c
    ELSE LET res == Head(results)
             b   == TallyBranch(res)
         IN  TallyLoop(Tail(results),
                 IF b = "success"
                 THEN [c EXCEPT !.processed = @ + 1, !.log = Append(@, Tail(res))]
                 ELSE IF b = "already"
                 THEN [c EXCEPT !.already = @ + 1]
                 ELSE [c EXCEPT !.skipped = @ + 1])

\* What is written to injection_summary.txt
SummaryOf(c) ==
    [total |-> c.total,
     processed |-> c.processed,
     already |-> c.already,
     errors |-> c.total - c.processed - c.already,
     lines |-> [k \in 1..Len(c.log) |-> <<c.log[k][1], c.log[k][2], c.log[k][3]>>]]

\* main() from the directory checks to the submission of the tasks to the pool
MainStart ==
    /\ phase = "init"
    /\ \/ /\ ~Exists(cfg.src_dir, files)
          /\ phase' = "aborted"
          /\ UNCHANGED <<source_map, tasks, w, counts>>
       \/ /\ Exists(cfg.src_dir, files)
          /\ ~Exists(cfg.export_dir, files)
          /\ phase' = "aborted"
          /\ UNCHANGED <<source_map, tasks, w, counts>>
       \/ /\ Exists(cfg.src_dir, files)
          /\ Exists(cfg.export_dir, files)
          /\ \E srcListing \in ListingOrders(FilesIn(cfg.src_dir, files)),
                expListing \in ListingOrders(FilesIn(cfg.export_dir, files)) :
                /\ FsResolve(cfg.src_dir) = FsResolve(cfg.export_dir)
                      => srcListing = expListing
                /\ source_map' = BuildSourceMap(Walk(cfg.src_dir, srcListing), <<>>)
                /\ tasks' = BuildWorkList(Walk(cfg.export_dir, expListing), source_map')
          /\ counts' = [NoCounts EXCEPT !.total = Len(tasks')]
          /\ w' = [k \in 1..Len(tasks') |-> NewWorker]
          /\ phase' = "pool"
    /\ UNCHANGED <<cfg, files, tagModel, tagTitle, text, trash, run, summary, taggedBefore, call, ret>>

\* list(executor.map(...)) meets a future that raised: the iterator cancels
\* every future not yet started and the exception leaves the with block, which
\* waits for the running workers.
MainRaise ==
    /\ phase = "pool"
    /\ \E k \in 1..Len(w) :
          /\ w[k].pc = "done" /\ IsException(w[k].result)
          /\ \A j \in 1..(k - 1) : w[j].pc = "done" /\ ~IsException(w[j].result)
    /\ w' = [k \in 1..Len(w) |-> IF w[k].pc = "pending"
                                  THEN [w[k] EXCEPT !.pc = "cancelled"] ELSE w[k]]
    /\ phase' = "unwind"
    /\ UNCHANGED <<cfg, files, tagModel, tagTitle, text, trash, run, source_map, tasks,
                   counts, summary, taggedBefore, call, ret>>

\* The pool has shut down: the exception ends main() before the tally
MainCrash ==
    /\ phase = "unwind"
    /\ \A j \in 1..Len(w) : ~Running(j)
    /\ phase' = "crashed"
    /\ UNCHANGED <<cfg, files, tagModel, tagTitle, text, trash, run, source_map, tasks, w,
                   counts, summary, taggedBefore, call, ret>>

\* Every future returned: the tally loop
Tally ==
    /\ phase = "pool"
    /\ \A j \in 1..Len(w) : w[j].pc = "done" /\ ~IsException(w[j].result)
    /\ counts' = TallyLoop([k \in 1..Len(w) |-> w[k].result], counts)
    /\ phase' = "tallied"
    /\ UNCHANGED <<cfg, files, tagModel, tagTitle, text, trash, run, source_map, tasks, w,
                   summary, taggedBefore, call, ret>>

\* The summary file is written
WriteSummary ==
    /\ phase = "tallied"
    /\ summary' = SummaryOf(counts)
    /\ phase' = "finished"
    /\ UNCHANGED <<cfg, files, tagModel, tagTitle, text, trash, run, source_map, tasks, w,
                   counts, taggedBefore, call, ret>>

\* After a run that completed, the program is started again with the same
\* arguments over the disk as that run left it; main calls check_ffmpeg()
\* again, and 'ffmpeg -version' may answer otherwise than in the run before.
Rerun ==
    /\ phase = "finished"
    /\ run < MaxRuns
    /\ \E has_ffmpeg \in BOOLEAN : cfg' = [cfg EXCEPT !.has_ffmpeg = has_ffmpeg]
    /\ run' = run + 1
    /\ phase' = "init"
    /\ taggedBefore' = taggedBefore \cup
          {FsResolve(tasks[k].export_path) : k \in {j \in 1..Len(w) : w[j].tag = "ok"}}
    /\ source_map' = <<>>
    /\ tasks' = <<>>
    /\ w' = <<>>
    /\ counts' = NoCounts
    /\ summary' = "none"
    /\ UNCHANGED <<files, tagModel, tagTitle, text, trash, call, ret>>

(***************************************************************************)
(* The specification                                                       *)
(***************************************************************************)
\* The telemetry logs of the disk; s/a.srt holds any of the texts, s/ab.SRT a
\* full one.
SrtFiles == {SrtA, SrtAB}
\* The files an earlier run of the program may have tagged already: none of
\* them, or all of them
Taggable == {VidA, VidAmov, ExpA, ExpABC}

InitRest ==
    /\ tagTitle = [f \in files |-> <<>>]
    /\ trash = {}
    /\ phase = "init"
    /\ run = 1
    /\ source_map = <<>>
    /\ tasks = <<>>
    /\ w = <<>>
    /\ counts = NoCounts
    /\ summary = "none"
    /\ taggedBefore = {}
    /\ call = [fn |-> "none"]
    /\ ret = [done |-> FALSE]

Init ==
    /\ files \in {S \in SUBSET UniverseSet : Cardinality(S) <= MaxFiles}
    /\ text \in {t \in [files \cap SrtFiles -> TextKinds] :
                    SrtAB \in files => t[SrtAB] = AllFields}
    /\ \E d \in DirArgs, o \in [force : BOOLEAN, delete_source : BOOLEAN,
                                 threads : 1..MaxThreads, has_ffmpeg : BOOLEAN] :
          cfg = [src_dir |-> d[1], export_dir |-> d[2], force |-> o.force,
                 delete_source |-> o.delete_source, threads |-> o.threads,
                 has_ffmpeg |-> o.has_ffmpeg]
    /\ \E pre \in {{}, files \cap Taggable} :
          tagModel = [f \in files |-> IF f \in pre THEN CmdModel ELSE <<>>]
    /\ InitRest

Workers ==
    \/ \E i \in 1..Len(w) : ProcessStart(i)
    \/ \E i \in 1..Len(w) : DetectorCheckFfmpeg(i)
    \/ \E i \in 1..Len(w) : Probe(i)
    \/ \E i \in 1..Len(w) : EmbedRun(i)
    \/ \E i \in 1..Len(w) : EmbedMove(i)
    \/ \E i \in 1..Len(w) : Inject(i)
    \/ \E i \in 1..Len(w) : RecycleScan(i)
    \/ \E i \in 1..Len(w) : Trash(i)

Next ==
    \/ MainStart
    \/ Workers
    \/ MainRaise
    \/ MainCrash
    \/ Tally
    \/ WriteSummary

Spec == Init /\ [][Next]_vars

(***************************************************************************)
(* Two runs of main() in a row without --force, one thread, no export      *)
(* tagged beforehand                                                       *)
(***************************************************************************)
InitTwice ==
    /\ files \in {S \in SUBSET UniverseSet : Cardinality(S) <= MaxFiles}
    /\ text \in {t \in [files \cap SrtFiles -> TextKinds] :
                    SrtAB \in files => t[SrtAB] = AllFields}
    /\ \E d \in DirArgs, o \in [delete_source : BOOLEAN, has_ffmpeg : BOOLEAN] :
          cfg = [src_dir |-> d[1], export_dir |-> d[2], force |-> FALSE,
                 delete_source |-> o.delete_source, threads |-> 1,
                 has_ffmpeg |-> o.has_ffmpeg]
    /\ tagModel = [f \in files |-> <<>>]
    /\ InitRest

NextTwice == Next \/ Rerun

SpecTwice == InitTwice /\ [][NextTwice]_vars

(***************************************************************************)
(* The matching rule of main() called on its own                           *)
(***************************************************************************)
\* The longest index key tried
MaxKeyLen == 2
\* The largest number of keys in the index
MaxKeys == 2
\* The longest export base name tried
MaxBaseLen == 3

Alphabet == {"a", "b"}
Words(n) == UNION {[1..k -> Alphabet] : k \in 1..n}
KeySeqs ==
    {q \in UNION {[1..k -> Words(MaxKeyLen)] : k \in 0..MaxKeys} :
        \A x, y \in 1..Len(q) : q[x] = q[y] => x = y}

\* The telemetry log a key stands for
SrtOfKey(key) == <<"s", "/">> \o key \o ExtSrt
IndexOf(keys) == [k \in 1..Len(keys) |-> <<keys[k], SrtOfKey(keys[k])>>]

KeyDji     == <<"d","j","i","_","0","0","0","1">>
KeyDjiEdit == KeyDji \o <<"_","e","d","i","t">>
BaseDjiEditFinal == KeyDjiEdit \o <<"_","f","i","n","a","l">>

InitMatch ==
    /\ \/ \E keys \in KeySeqs, b \in Words(MaxBaseLen) :
             call = [fn |-> "match", base_name |-> b, source_map |-> IndexOf(keys)]
       \/ \E keys \in {<<KeyDji, KeyDjiEdit>>, <<KeyDjiEdit, KeyDji>>} :
             call = [fn |-> "match", base_name |-> BaseDjiEditFinal,
                     source_map |-> IndexOf(keys)]
    /\ ret = [done |-> FALSE]
    /\ cfg = "none"
    /\ files = {}
    /\ text = <<>>
    /\ tagModel = <<>>
    /\ tagTitle = <<>>
    /\ trash = {}
    /\ phase = "call"
    /\ run = 1
    /\ source_map = <<>>
    /\ tasks = <<>>
    /\ w = <<>>
    /\ counts = NoCounts
    /\ summary = "none"
    /\ taggedBefore = {}

\* matched_srt is computed for call.base_name over call.source_map
ApplyMatch ==
    /\ call.fn = "match"
    /\ ~ret.done
    /\ ret' = [done |-> TRUE, value |-> MatchSrt(call.base_name, call.source_map)]
    /\ UNCHANGED <<cfg, files, tagModel, tagTitle, text, trash, phase, run, source_map,
                   tasks, w, counts, summary, taggedBefore, call>>

SpecMatch == InitMatch /\ [][ApplyMatch]_vars

(***************************************************************************)
(* parse_srt_data and format_iso6709 called on their own                   *)
(***************************************************************************)
\* What the other variables hold while a function is called on its own
IdleRest ==
    /\ ret = [done |-> FALSE]
    /\ cfg = "none"
    /\ files = {}
    /\ text = <<>>
    /\ tagModel = <<>>
    /\ tagTitle = <<>>
    /\ trash = {}
    /\ phase = "call"
    /\ run = 1
    /\ source_map = <<>>
    /\ tasks = <<>>
    /\ w = <<>>
    /\ counts = NoCounts
    /\ summary = "none"
    /\ taggedBefore = {}

\* parse_srt_data(srt_path): reading the file raises (readable FALSE) and the
\* handler returns None, or the regexes find the given fields.
ParseSrtData(readable, fields) ==
    IF ~readable THEN ParsedNone ELSE ParseSrt(fields)

InitParse ==
    /\ \E fields \in SUBSET AllFields, readable \in BOOLEAN :
          call = [fn |-> "parse", readable |-> readable, fields |-> fields]
    /\ IdleRest

ApplyParse ==
    /\ call.fn = "parse"
    /\ ~ret.done
    /\ ret' = [done |-> TRUE, value |-> ParseSrtData(call.readable, call.fields)]
    /\ UNCHANGED <<cfg, files, tagModel, tagTitle, text, trash, phase, run, source_map,
                   tasks, w, counts, summary, taggedBefore, call>>

SpecParse == InitParse /\ [][ApplyParse]_vars

\* Numbers are fixed-point integers: latitude and longitude in millionths of a
\* degree, altitude in ten-thousandths of a metre, one decimal more than the
\* format prints, so that the rounding of the format shows.
DigitChars == <<"0", "1", "2", "3", "4", "5", "6", "7", "8", "9">>

RECURSIVE Pow10(_)
Pow10(k) == IF k = 0 THEN 1 ELSE 10 * Pow10(k - 1)

\* The decimal digits of n >= 0
RECURSIVE Digits(_)
Digits(n) ==
    IF n < 10 THEN <<DigitChars[n + 1]>>
    ELSE Digits(n \div 10) \o <<DigitChars[(n % 10) + 1]>>

\* Zero padding on the left up to a minimum width
RECURSIVE ZeroPad(_, _)
ZeroPad(s, width) == IF Len(s) >= width THEN s ELSE ZeroPad(<<"0">> \o s, width)

Abs(n) == IF n >= 0 THEN n ELSE -n

\* The widths and precisions of the format string
LatWidth == 8
LonWidth == 9
AltWidth == 8
DegDecimals == 5
AltDecimals == 3

\* f"{x:0W.Df}" for x = n / 10^(D+1) >= 0: rounded to D decimals (n's last
\* digit is never 5, so no tie arises), padded with zeros to at least W
FixedFormat(n, decimals, width) ==
    LET m == (n + 5) \div 10
    IN  ZeroPad(Digits(m \div Pow10(decimals)) \o <<".">>
                \o ZeroPad(Digits(m % Pow10(decimals)), decimals), width)

\* '+' if x >= 0 else '-'
SignOf(n) == IF n >= 0 THEN <<"+">> ELSE <<"-">>

format_iso6709(lat, lon, alt) ==
    SignOf(lat) \o FixedFormat(Abs(lat), DegDecimals, LatWidth)
    \o SignOf(lon) \o FixedFormat(Abs(lon), DegDecimals, LonWidth)
    \o SignOf(alt) \o FixedFormat(Abs(alt), AltDecimals, AltWidth)
    \o <<"/">>

\* Latitudes within +-90 degrees, in millionths: 0, the smallest magnitudes,
\* 35.6812, -1.0, values that round up to the next digit count, the poles.
LatSamples == {0, 1, -1, 4, -6, 35681200, -1000000, 9999996, 89999996, 90000000, -90000000}
\* Longitudes within +-180 degrees, in millionths
LonSamples == {0, -4, 139767100, -2000000, 99999996, 179999996, -180000000}
\* Altitudes below 1000 m in magnitude, in ten-thousandths: 0, 10.2, -0.0001,
\* 0.0006, 999.9996, -999.9994
AltSamples == {0, 102000, -1, 6, 9999996, -9999994}

InitFormat ==
    /\ \E lat \in LatSamples, lon \in LonSamples, alt \in AltSamples :
          call = [fn |-> "format", lat |-> lat, lon |-> lon, alt |-> alt]
    /\ IdleRest

ApplyFormat ==
    /\ call.fn = "format"
    /\ ~ret.done
    /\ ret' = [done |-> TRUE, value |-> format_iso6709(call.lat, call.lon, call.alt)]
    /\ UNCHANGED <<cfg, files, tagModel, tagTitle, text, trash, phase, run, source_map,
                   tasks, w, counts, summary, taggedBefore, call>>

SpecFormat == InitFormat /\ [][ApplyFormat]_vars

(***************************************************************************)
(* The claims                                                              *)
(***************************************************************************)
ExportOf(i) == FsResolve(tasks[i].export_path)
Items == 1..Len(w)

\* C1: when the first candidate recording that exists is, after normpath, the
\* export path itself, the step of recycle_source that finds it issues no
\* recycle-bin invocation, leaves the disk and the bin as they are, and the
\* function returns normally (the worker returns its status).
C1_SafetyStopLeavesDisk ==
    [][\A i \in Items :
          LET cands == PotentialSrcs(tasks[i].matched_srt)
              k     == FirstExisting(cands, files)
          IN  (/\ w[i].pc = "recycle"
               /\ Len(w') = Len(w)
               /\ w'[i] # w[i]
               /\ k # 0
               /\ NormPath(cands[k]) = NormPath(tasks[i].export_path))
              => (/\ files' = files
                  /\ trash' = trash
                  /\ tagModel' = tagModel
                  /\ tagTitle' = tagTitle
                  /\ w'[i].pc = "done"
                  /\ w'[i].trashRes = "none"
                  /\ w'[i].src_vid = <<>>
                  /\ w'[i].result = w[i].final)]_vars

\* C1's case: recycle_source stopped at its safety check for a candidate that
\* is spelled differently from the export path and still on disk.
C1_Witness ==
    \E i \in Items :
        /\ w[i].pc = "done"
        /\ w[i].safety
        /\ \E k \in 1..4 :
              LET c == PotentialSrcs(tasks[i].matched_srt)[k]
              IN  /\ c # tasks[i].export_path
                  /\ NormPath(c) = NormPath(tasks[i].export_path)
                  /\ FsResolve(c) \in files

\* C2: outside the already-processed path, recycle_source is called only with
\* cleanup-mode on, the embedding not failed, a valid record parsed and the
\* tagging-tool invocation completed successfully.
C2_RecycleOnlyAfterTagged ==
    \A i \in Items :
        (w[i].recycle > 0 /\ w[i].detect # "true")
        => (/\ cfg.delete_source
            /\ w[i].srt_ok
            /\ w[i].parsed = "record"
            /\ w[i].tag = "ok")

\* C3: no work item's failure leaves the worker as an exception, no item is
\* left unprocessed, and the run never ends before the tally.
C3_EveryFailureBecomesOutcome ==
    /\ phase \notin {"unwind", "crashed"}
    /\ \A i \in Items : ~IsException(w[i].result) /\ w[i].pc # "cancelled"

\* C4 (as stated): in a second full run without force-mode every work item
\* yields already_processed and neither the tagging tool nor the remux tool is
\* invoked for it.
C4_SecondRunSkipsEverything ==
    run >= 2 =>
        \A i \in Items :
            /\ w[i].remux = "none"
            /\ w[i].tag = "none"
            /\ w[i].pc = "done" => w[i].result = StatusAlready

\* C4 (amended): in a later full run without force-mode, every work item whose
\* export took a successful tagging invocation in an earlier run, and whose
\* detector query of the tagging tool completes, is reported processed by the
\* detector, yields already_processed, and has neither the tagging tool nor
\* the remux tool invoked for it.
C4_SecondRunSkipsTagged ==
    run >= 2 =>
        \A i \in Items :
            (ExportOf(i) \in taggedBefore /\ w[i].exifQ = "ok")
            => (/\ w[i].detect = "true"
                /\ w[i].remux = "none"
                /\ w[i].tag = "none"
                /\ w[i].parsed = "none"
                /\ w[i].pc = "done" => w[i].result = StatusAlready)

\* C4's case: a second run has finished an item that the first run tagged.
C4_Witness ==
    /\ run = 2
    /\ \E i \in Items :
          /\ ExportOf(i) \in taggedBefore
          /\ w[i].exifQ = "ok"
          /\ w[i].pc = "done"
          /\ w[i].result = StatusAlready

\* C5: the matcher returns the log of the key equal to the base name when
\* there is one; otherwise the log of a key that is a substring of the base
\* name, of the greatest length among such keys and, among those of that
\* length, the earliest in the map; and no match when no key is a substring.
\* dji_0001_edit_final with keys dji_0001 and dji_0001_edit yields the log of
\* dji_0001_edit.
C5_ExactThenLongestSubstring ==
    ret.done =>
        LET m    == call.source_map
            b    == call.base_name
            keys == MapKeys(m)
            subs == {k \in 1..Len(keys) : Contains(keys[k], b)}
        IN  /\ (\E k \in 1..Len(keys) : keys[k] = b) => ret.value = MapGet(m, b)
            /\ (subs = {}) => ret.value = NoMatch
            /\ (subs # {} /\ \A k \in 1..Len(keys) : keys[k] # b)
               => \E k \in subs :
                     /\ ret.value = MapGet(m, keys[k])
                     /\ \A j \in subs : Len(keys[j]) <= Len(keys[k])
                     /\ \A j \in subs : Len(keys[j]) = Len(keys[k]) => k <= j
            /\ (b = BaseDjiEditFinal /\ keys = <<KeyDji, KeyDjiEdit>>)
               => ret.value = SrtOfKey(KeyDjiEdit)

\* C5's case: the base name is no key, two different keys of the same
\* greatest length are substrings of it, and the matcher has answered.
C5_Witness ==
    /\ ret.done
    /\ LET keys == MapKeys(call.source_map)
       IN  /\ Len(keys) = 2
           /\ keys[1] # keys[2]
           /\ Len(keys[1]) = Len(keys[2])
           /\ keys[1] # call.base_name
           /\ keys[2] # call.base_name
           /\ Contains(keys[1], call.base_name)
           /\ Contains(keys[2], call.base_name)
           /\ ret.value = MapGet(call.source_map, keys[1])

\* C6: once the results are tallied, total_videos is the number of work items
\* and equals processed_count + already_processed_count + skipped_count; the
\* detail log has processed_count entries; and in the summary that is written
\* the error figure is the number of results that are neither a success nor
\* already_processed, with one detail line per processed video.
C6_TallyAddsUp ==
    phase \in {"tallied", "finished"} =>
        LET results == [k \in Items |-> w[k].result]
            ofKind(P(_)) == Cardinality({k \in Items : P(results[k])})
            IsSuccess(res) == res[1] = "success"
            IsAlready(res) == res = StatusAlready
            IsOther(res)   == ~IsSuccess(res) /\ ~IsAlready(res)
        IN  /\ counts.total = Len(results)
            /\ counts.total = counts.processed + counts.already + counts.skipped
            /\ counts.processed = ofKind(IsSuccess)
            /\ counts.already = ofKind(IsAlready)
            /\ Len(counts.log) = counts.processed
            /\ phase = "finished" =>
                  /\ summary.errors = ofKind(IsOther)
                  /\ summary.total = counts.total
                  /\ Len(summary.lines) = counts.processed

\* C6's case: a summary written for a run of two items of which one was
\* already processed and the other failed.
C6_Witness ==
    /\ phase = "finished"
    /\ Len(w) = 2
    /\ counts.already = 1
    /\ counts.skipped = 1
    /\ summary.errors = 1

\* C7: an item whose log parsed to None has returned the error status, with
\* no exiftool write and no call of recycle_source, so nothing of it is in
\* the bin.
C7_NoRecordNoTagNoRecycle ==
    \A i \in Items :
        w[i].parsed = "None"
        => (/\ w[i].pc = "done"
            /\ w[i].result = StatusError
            /\ w[i].tag = "none"
            /\ w[i].recycle = 0
            /\ w[i].trashRes = "none"
            /\ w[i].src_vid = <<>>)

\* C7's case: the log parsed to None with cleanup-mode on, the embedding not
\* failed, and an original recording of that log still on disk.
C7_Witness ==
    \E i \in Items :
        /\ w[i].parsed = "None"
        /\ cfg.delete_source
        /\ w[i].srt_ok
        /\ FirstExisting(PotentialSrcs(tasks[i].matched_srt), files) # 0

\* C8: an item that returned has the status already_processed exactly when
\* force is off and check_if_processed answered True; on that path there is
\* no remux, no parse and no exiftool write, and recycle_source is called
\* once with cleanup-mode and never without; with force on the detector is
\* not consulted and the status is never already_processed.
C8_AlreadyProcessedPath ==
    \A i \in Items :
        /\ (w[i].pc = "done" /\ ~IsException(w[i].result))
           => ((w[i].result = StatusAlready) <=> (~cfg.force /\ w[i].detect = "true"))
        /\ w[i].detect = "true"
           => (/\ w[i].remux = "none"
               /\ w[i].parsed = "none"
               /\ w[i].tag = "none"
               /\ w[i].recycle <= 1
               /\ w[i].pc \in {"recycle", "trash", "done"}
               /\ w[i].recycle = IF cfg.delete_source THEN 1 ELSE 0)
        /\ cfg.force => (w[i].detect = "none" /\ w[i].result # StatusAlready)

\* C8's case: an already-processed item returned after its recording went to
\* the bin.
C8_Witness ==
    \E i \in Items :
        /\ w[i].pc = "done"
        /\ w[i].result = StatusAlready
        /\ cfg.delete_source
        /\ w[i].trashRes = "ok"

\* C9: the ffmpeg step of embed_subtitle creates at most the temp file and
\* leaves the export as it is; when embed_subtitle returns the temp file is
\* not on disk; it returns True only after the move, with the export being
\* the temp output; and when it returns False the export is as it was.
C9_TempThenReplace ==
    [][\A i \in Items :
          LET x == FsResolve(tasks[i].export_path)
              t == FsResolve(TempOutput(tasks[i].export_path))
              sameExport ==
                  /\ (x \in files) <=> (x \in files')
                  /\ x \in files => /\ tagModel'[x] = tagModel[x]
                                    /\ tagTitle'[x] = tagTitle[x]
          IN  Len(w') = Len(w) =>
              /\ (w[i].pc = "embed" /\ w'[i].pc # "embed")
                 => (sameExport /\ files' \ files \subseteq {t})
              /\ (w[i].pc \in {"embed", "embed_move"} /\ w'[i].pc = "inject")
                 => (/\ t \notin files'
                     /\ IF w'[i].srt_ok
                        THEN /\ w[i].pc = "embed_move"
                             /\ w[i].remux = "ok"
                             /\ x \in files'
                             /\ tagTitle'[x] = CmdTitle
                             /\ tagModel'[x] = tagModel[t]
                        ELSE sameExport)]_vars

\* C9's case: the move after a successful remux raised and embed_subtitle
\* returned False.
C9_Witness ==
    \E i \in Items :
        /\ w[i].remux = "ok"
        /\ w[i].moved = "raise"
        /\ ~w[i].srt_ok
        /\ w[i].pc # "embed_move"

\* C10: of two different items matched to the same log, at most one issues a
\* trash invocation for a given recording, and no trash invocation is issued
\* for a recording that is no longer there.
C10_NoDoubleTrash ==
    /\ \A i \in Items : w[i].trashRes # "gone"
    /\ \A i, j \in Items :
          (/\ i # j
           /\ tasks[i].matched_srt = tasks[j].matched_srt
           /\ w[i].trashRes # "none"
           /\ w[j].trashRes # "none")
          => FsResolve(w[i].src_vid) # FsResolve(w[j].src_vid)

\* C11: when src_dir or export_dir does not exist, main() returns at its
\* directory checks: the only step taken ends the run with no index, no work
\* list, no worker, the disk, the tags and the bin as they were and no
\* summary written; and nothing happens after that.
C11_MissingDirStopsRun ==
    [][/\ (phase = "init"
           /\ \E d \in {cfg.src_dir, cfg.export_dir} :
                 FsResolve(d) \notin Dirs \cup files)
          => (/\ phase' = "aborted"
              /\ source_map' = <<>>
              /\ tasks' = <<>>
              /\ w' = <<>>
              /\ files' = files
              /\ tagModel' = tagModel
              /\ tagTitle' = tagTitle
              /\ trash' = {}
              /\ counts' = NoCounts
              /\ summary' = "none")
       /\ phase # "aborted"]_vars

\* C11's case: the run has stopped for a missing directory although the disk
\* holds an export video and a telemetry log that matches it.
C11_Witness ==
    /\ phase = "aborted"
    /\ cfg.src_dir = DirX \/ cfg.export_dir = DirX
    /\ SrtA \in files
    /\ ExpA \in files

\* C12: at the scan, an export video whose base name contains no key of the
\* index (and so equals none) is in no entry of the work list; there is one
\* worker per entry of the list, the total is the length of the list, and the
\* summary's total is that number.
C12_UnmatchedExportLeftOut ==
    [][/\ (phase = "init" /\ phase' = "pool")
          => LET paths == {Join(cfg.export_dir, Basename(f)) :
                              f \in FilesIn(cfg.export_dir, files)}
             IN  /\ \A path \in paths :
                       LET b == Lower(SplitextRoot(Basename(path)))
                       IN  (\A j \in 1..Len(source_map') : ~Contains(source_map'[j][1], b))
                           => \A k \in 1..Len(tasks') : tasks'[k].export_path # path
                 /\ Len(w') = Len(tasks')
                 /\ counts'.total = Len(tasks')
       /\ phase' = "finished" => summary'.total = Len(tasks')
       /\ phase # "init" => (tasks' = tasks \/ phase' = "init")]_vars

\* C12's case: a run has finished over an export tree that holds e/c.mp4,
\* which no key matches, next to an export that was matched and processed.
C12_Witness ==
    /\ phase = "finished"
    /\ cfg.export_dir = DirE
    /\ ExpC \in files
    /\ source_map # <<>>
    /\ Len(tasks) >= 1
    /\ \A t \in 1..Len(tasks) : FsResolve(tasks[t].export_path) # ExpC
    /\ summary.total = Len(tasks)

\* C13: parse_srt_data returns a record only when the file could be read and
\* both a latitude and a longitude were found; when either is absent the
\* result is None whatever else was found; a returned record holds both
\* 'latitude' and 'longitude'.
C13_RecordNeedsBothCoordinates ==
    (ret.done /\ call.fn = "parse") =>
        /\ ("latitude" \notin call.fields \/ "longitude" \notin call.fields)
           => ret.value = ParsedNone
        /\ ret.value # ParsedNone
           => (/\ call.readable
               /\ {"latitude", "longitude"} \subseteq call.fields
               /\ {"latitude", "longitude"} \subseteq ret.value
               /\ ret.value \subseteq call.fields)

\* C13's case: every field but the longitude was found in a readable log, and
\* the parser has returned None.
C13_Witness ==
    /\ ret.done
    /\ call.fn = "parse"
    /\ call.readable
    /\ call.fields = AllFields \ {"longitude"}
    /\ ret.value = ParsedNone

\* C14: format_iso6709 returns 29 characters: a sign, 2 digits, '.', 5 digits;
\* a sign, 3 digits, '.', 5 digits; a sign, 3 digits, '.', 3 digits; '/'; with
\* the signs first, tenth and twentieth, each '+' for a value >= 0 and '-'
\* for a negative one.
C14_FixedShape ==
    (ret.done /\ call.fn = "format") =>
        LET v == ret.value
            digit(k) == \E d \in 1..10 : v[k] = DigitChars[d]
            sign(k, n) == v[k] = IF n >= 0 THEN "+" ELSE "-"
        IN  /\ Len(v) = 29
            /\ sign(1, call.lat) /\ sign(10, call.lon) /\ sign(20, call.alt)
            /\ \A k \in {2, 3} \cup 5..9 : digit(k)
            /\ v[4] = "."
            /\ \A k \in 11..13 \cup 15..19 : digit(k)
            /\ v[14] = "."
            /\ \A k \in 21..23 \cup 25..27 : digit(k)
            /\ v[24] = "."
            /\ v[28] = "/"

\* C15: an item whose embedding failed (ffmpeg failed, or the move of the
\* temp output raised) has srt_ok False and recycle_source is never called for
\* it; once past step 2 its log was parsed, when that gave a record the
\* exiftool write was invoked, and after the write the item returned success.
\* Without ffmpeg nothing is embedded, srt_ok stays True, and an item that
\* returned success with cleanup-mode on has called recycle_source once.
C15_FailedEmbedBlocksOnlyRecycle ==
    \A i \in Items :
        LET failed == w[i].remux = "fail" \/ w[i].moved = "raise"
            past   == w[i].pc \in {"recycle", "trash", "done"}
        IN  /\ failed => (/\ cfg.has_ffmpeg
                          /\ ~w[i].srt_ok
                          /\ w[i].recycle = 0
                          /\ w[i].trashRes = "none"
                          /\ w[i].pc \in {"inject", "done"})
            /\ (failed /\ past)
               => (/\ w[i].parsed # "none"
                   /\ w[i].parsed = "record" => w[i].tag # "none"
                   /\ w[i].tag \in {"ok", "fail"} => w[i].result[1] = "success")
            /\ (~cfg.has_ffmpeg /\ w[i].detect # "true")
               => (/\ w[i].remux = "none"
                   /\ w[i].srt_ok
                   /\ (w[i].pc = "done" /\ cfg.delete_source
                       /\ w[i].result[1] = "success")
                      => w[i].recycle = 1)

\* C16: no file in the recycle bin is the export path of an entry of the
\* work list.
C16_NoExportInTrash ==
    \A k \in 1..Len(tasks) : FsResolve(tasks[k].export_path) \notin trash

\* C17: an item whose log gives latitude and longitude but not every other
\* field, once past step 2, has had the exiftool write invoked and, unless
\* exiftool could not be started, has the success status and returned no
\* exception.
C17_OtherFieldsOptional ==
    \A i \in Items :
        LET fields == text[FsResolve(tasks[i].matched_srt)]
        IN  (/\ w[i].pc \in {"recycle", "trash", "done"}
             /\ w[i].detect # "true"
             /\ {"latitude", "longitude"} \subseteq fields
             /\ fields # AllFields)
            => (/\ w[i].parsed = "record"
                /\ w[i].tag # "none"
                /\ w[i].tag # "raise"
                   => (/\ ~IsException(w[i].result)
                       /\ w[i].final[1] = "success"))

\* C18: there is one worker per entry of the work list; when main() has
\* ended past its directory checks every work item has been processed to its
\* terminal state; and the tally and the summary exist only when every item
\* has.
C18_EveryItemProcessedThenTally ==
    /\ Len(w) = Len(tasks)
    /\ phase \in {"crashed", "tallied", "finished"}
       => \A i \in Items : w[i].pc = "done"
    /\ phase # "finished" => summary = "none"

\* C19 (as stated): once check_if_processed has answered, it answered False
\* whenever its exiftool query or its ffprobe query failed or raised.
C19_AnyFailedQueryMeansFalse ==
    \A i \in Items :
        (/\ w[i].detect # "none"
         /\ \/ w[i].exifQ \in {"fail", "raise"}
            \/ w[i].probeQ \in {"fail", "raise"})
        => w[i].detect = "false"

\* C19 (amended): the step in which check_if_processed answers, without
\* force, answers False when the exiftool query raised (no ffprobe query is
\* made then), when the ffprobe query failed or raised, and when no query
\* completed; True only when exiftool's output for the export contained the
\* model sentinel or ffprobe's output for the export contained the title
\* sentinel; and on False the item goes on to embedding or to injection.
C19_FailOpenDetector ==
    [][\A i \in Items :
          (/\ Len(w') = Len(w)
           /\ w[i].detect = "none"
           /\ w'[i].detect # "none")
          => LET x == FsResolve(tasks[i].export_path)
                 e == w'[i].exifQ
                 q == w'[i].probeQ
             IN  /\ ~cfg.force
                 /\ w'[i].detect \in {"true", "false"}
                 /\ e = "raise" => (w'[i].detect = "false" /\ q = "none")
                 /\ q \in {"fail", "raise"} => w'[i].detect = "false"
                 /\ (e # "ok" /\ q # "ok") => w'[i].detect = "false"
                 /\ w'[i].detect = "true"
                    => (/\ x \in files
                        /\ \/ e = "ok" /\ q = "none" /\ Contains(CmdModel, tagModel[x])
                           \/ q = "ok" /\ Contains(CmdTitle, tagTitle[x]))
                 /\ w'[i].detect = "false"
                    => w'[i].pc = IF cfg.has_ffmpeg THEN "embed" ELSE "inject"]_vars

\* C19's case: the exiftool query failed without raising and ffprobe reported
\* the telemetry title, so the detector answered True.
C19_Witness ==
    \E i \in Items :
        /\ w[i].exifQ = "fail"
        /\ w[i].probeQ = "ok"
        /\ w[i].detect = "true"

\* The files the pipeline of a work item may write or replace: the export,
\* embed_subtitle's temp_output and inject_metadata's tmp_path
WriteSet(task) ==
    {FsResolve(task.export_path),
     FsResolve(TempOutput(task.export_path)),
     FsResolve(ExiftoolTmp(task.export_path))}

\* C20: whenever the work list is built, the write sets of two different
\* entries have no file in common (so no export is another entry's temp
\* file), and a step of the embedding or of the injection of an item creates,
\* removes and retags files of that item's write set only.
C20_WriteSetsDisjoint ==
    [][/\ tasks' # tasks
          => \A i, j \in 1..Len(tasks') :
                i # j => WriteSet(tasks'[i]) \cap WriteSet(tasks'[j]) = {}
       /\ \A i \in Items :
             (/\ w[i].pc \in {"embed", "embed_move", "inject"}
              /\ Len(w') = Len(w)
              /\ w'[i] # w[i])
             => \A f \in (files \cup files') \ WriteSet(tasks[i]) :
                   /\ f \in files
                   /\ f \in files'
                   /\ tagModel'[f] = tagModel[f]
                   /\ tagTitle'[f] = tagTitle[f]]_vars

\* C20's case: two work items, e/a.mp4 among them, whose embedding has just
\* written its temp output e/temp_a.mp4.
C20_Witness ==
    /\ Len(tasks) = 2
    /\ ExpTemp \in files
    /\ \E i \in Items :
          /\ FsResolve(tasks[i].export_path) = ExpA
          /\ w[i].pc = "embed_move"

====
